---------------------------- MODULE Spec2Model ----------------------------
(***************************************************************************)
(* Model of app.py, the Streamlit "Site Observation Report Generator".     *)
(*                                                                         *)
(* The script is re-executed from top to bottom on every user interaction.*)
(* What survives between runs is st.session_state.uploaded_files (the     *)
(* staged images), the value held by the file_uploader widget, and the    *)
(* temporary files left on disk.  Each action below is one user           *)
(* interaction followed by the complete script run it triggers.           *)
(*                                                                         *)
(* File names and text-area contents are sequences of one-character       *)
(* strings, so that the regular expression of extract_number and the      *)
(* split("\n") of the text areas are computed character by character.     *)
(***************************************************************************)
EXTENDS Integers, Sequences, FiniteSets, TLC

(***************************************************************************)
(* Bounds of the model.                                                    *)
(***************************************************************************)
\* most files the upload widget holds at once
MaxFiles == 5
\* most characters typed into a text area
MaxText == 4

(***************************************************************************)
(* Inputs.                                                                 *)
(***************************************************************************)
\* The files a user may pick.  id stands for the UploadedFile object's
\* identity, name for its .name, payload for what .read() returns:
\* "jpeg" is decodable by PIL, "garbage" is not.
Jpg == <<".", "j", "p", "g">>

FilePool ==
  { [id |-> 1, name |-> <<"i","m","g","3">> \o Jpg,     payload |-> "jpeg"],
    [id |-> 2, name |-> <<"i","m","g","1">> \o Jpg,     payload |-> "jpeg"],
    [id |-> 3, name |-> <<"i","m","g","1","0">> \o Jpg, payload |-> "jpeg"],
    [id |-> 4, name |-> <<"c","o","v","e","r">> \o Jpg, payload |-> "jpeg"],
    [id |-> 5, name |-> <<"i","m","g","2">> \o Jpg,     payload |-> "jpeg"],
    [id |-> 6, name |-> <<"n","o","t","e","s">> \o Jpg, payload |-> "jpeg"],
    [id |-> 7, name |-> <<"p","0","1","x","9">> \o Jpg, payload |-> "garbage"] }

NL == "\n"
TextChars == {"A", NL}

RECURSIVE TextsUpTo(_)
TextsUpTo(n) ==
  IF n = 0 THEN { <<>> }
  ELSE LET shorter == TextsUpTo(n - 1)
       IN shorter \cup { Append(t, c) : t \in { s \in shorter : Len(s) = n - 1 },
                                        c \in TextChars }

Texts == TextsUpTo(MaxText)
\* the text-area contents tried together with every staging of files
SampleTexts == { <<>>, <<"A", NL, NL, "A">> }
Weathers == {"", "12"}

(***************************************************************************)
(* extract_number and the sort of the staged list.                         *)
(***************************************************************************)
Digits == <<"0","1","2","3","4","5","6","7","8","9">>

IsDigit(c) == \E d \in 1..10 : Digits[d] = c

DigitValue(c) == (CHOOSE d \in 1..10 : Digits[d] = c) - 1

\* int(s) of a string of decimal digits.
RECURSIVE ParseInt(_)
ParseInt(s) ==
  IF s = <<>> THEN 0
  ELSE 10 * ParseInt(SubSeq(s, 1, Len(s) - 1)) + DigitValue(s[Len(s)])

\* re.search(r'(\d+)', filename): the leftmost, longest run of digits,
\* <<>> when the name holds no digit (match is None).
DigitRun(filename) ==
  IF \A i \in 1..Len(filename) : ~IsDigit(filename[i]) THEN <<>>
  ELSE LET first == CHOOSE i \in 1..Len(filename) :
                       /\ IsDigit(filename[i])
                       /\ \A j \in 1..(i - 1) : ~IsDigit(filename[j])
           last  == CHOOSE k \in first..Len(filename) :
                       /\ \A j \in first..k : IsDigit(filename[j])
                       /\ (k = Len(filename) \/ ~IsDigit(filename[k + 1]))
       IN SubSeq(filename, first, last)

\* A sort key: an int, or float('inf') (inf = TRUE, n unused).
Inf == [inf |-> TRUE, n |-> 0]

\* extract_number with the regular expression r'(\d)': only the first digit.
extract_number_one_digit(filename) ==
  IF DigitRun(filename) = <<>> THEN Inf
  ELSE [inf |-> FALSE, n |-> ParseInt(SubSeq(DigitRun(filename), 1, 1))]

\* extract_number returning 0 instead of float('inf') when nothing matches.
extract_number_zero_default(filename) ==
  IF DigitRun(filename) = <<>> THEN [inf |-> FALSE, n |-> 0]
  ELSE [inf |-> FALSE, n |-> ParseInt(DigitRun(filename))]

extract_number(filename) ==
  IF DigitRun(filename) = <<>> THEN Inf
  ELSE [inf |-> FALSE, n |-> ParseInt(DigitRun(filename))]

\* key=lambda f: extract_number(f.name).  list.sort calls the key function
\* once per element before it compares anything; the table holds those keys
\* for every file that can be staged.
SortKeys == [f \in FilePool |-> extract_number(f.name)]

\* Python's a < b on keys that are ints or float('inf').
KeyLT(a, b) == ~a.inf /\ (b.inf \/ a.n < b.n)

\* Insertion that puts f in front of the elements with an equal key.
RECURSIVE InsertBeforeEqual(_, _)
InsertBeforeEqual(sorted, f) ==
  IF sorted = <<>> THEN <<f>>
  ELSE IF KeyLT(SortKeys[sorted[1]], SortKeys[f])
       THEN <<sorted[1]>> \o InsertBeforeEqual(Tail(sorted), f)
       ELSE <<f>> \o sorted

\* One step of the sort: f goes in front of the first element whose key is
\* strictly greater, so behind every element with an equal key.
RECURSIVE Insert(_, _)
Insert(sorted, f) ==
  IF sorted = <<>> THEN <<f>>
  ELSE IF KeyLT(SortKeys[f], SortKeys[sorted[1]])
       THEN <<f>> \o sorted
       ELSE <<sorted[1]>> \o Insert(Tail(sorted), f)

\* uploaded_files.sort(key=lambda f: extract_number(f.name)): list.sort is
\* stable and compares keys with < only.
RECURSIVE SortByKey(_)
SortByKey(files) ==
  IF files = <<>> THEN <<>>
  ELSE Insert(SortByKey(SubSeq(files, 1, Len(files) - 1)), files[Len(files)])

(***************************************************************************)
(* resize_image and the document built by generate_report.                 *)
(***************************************************************************)
NoExc == [type |-> "none", mentions |-> {}]

\* resize_image(image_bytes, max_dim): Image.open raises on bytes PIL cannot
\* identify.  The function is handed the bytes alone, never the file's
\* name, so the exception's message mentions no file name.
resize_image(image_bytes) ==
  IF image_bytes = "jpeg"
  THEN [ok |-> TRUE,  exc |-> NoExc]
  ELSE [ok |-> FALSE, exc |-> [type |-> "UnidentifiedImageError", mentions |-> {}]]

\* tempfile.NamedTemporaryFile(delete=False): a name not yet on disk.  disk
\* holds the files created so far by the running generate_report.
NamedTemporaryFile(disk) == Cardinality(disk) + 1

Title       == [kind |-> "title", text |-> "Project Observation Report"]
Blank       == [kind |-> "paragraph"]
PageBreak   == [kind |-> "page_break"]
Heading(t)  == [kind |-> "heading", text |-> t]
Picture(file, temp) == [kind |-> "picture", image |-> file.id, temp |-> temp]

add_field(label, value) == [kind |-> "field", label |-> label, value |-> value]

BulletPrefix == <<" ", " ", " ", " ", "-", " ">>

\* doc.add_paragraph(f"    - {s}")
Bullet(s) == [kind |-> "bullet", text |-> BulletPrefix \o s]

\* for s in entries: doc.add_paragraph(f"    - {s}")
Bullets(entries) == [k \in 1..Len(entries) |-> Bullet(entries[k])]

\* str.split("\n") that drops the empty pieces.
RECURSIVE SplitDropEmpty(_)
SplitDropEmpty(text) ==
  IF \A k \in 1..Len(text) : text[k] # NL
  THEN IF text = <<>> THEN <<>> ELSE <<text>>
  ELSE LET cut == CHOOSE k \in 1..Len(text) :
                     text[k] = NL /\ \A j \in 1..(k - 1) : text[j] # NL
       IN (IF cut = 1 THEN <<>> ELSE <<SubSeq(text, 1, cut - 1)>>)
          \o SplitDropEmpty(SubSeq(text, cut + 1, Len(text)))

\* str.split("\n"): the pieces between the newlines, empty ones included.
RECURSIVE Split(_)
Split(text) ==
  IF \A k \in 1..Len(text) : text[k] # NL THEN <<text>>
  ELSE LET cut == CHOOSE k \in 1..Len(text) :
                     text[k] = NL /\ \A j \in 1..(k - 1) : text[j] # NL
       IN <<SubSeq(text, 1, cut - 1)>> \o Split(SubSeq(text, cut + 1, Len(text)))

\* Title page, static fields and the two bullet lists, up to and including
\* the unconditional page break.
FrontMatter(weather, subcontractors, areas) ==
  << Title, Blank,
     add_field("Project", "National Fire Cache Building                                        -"),
     add_field("Name", "Eli Whittington"),
     add_field("Email", "eli.whittington@pc.gc.ca"),
     add_field("Review Date", "today"),
     add_field("Report Date", "today"),
     add_field("Address", "200 Hawk Ave, Banff AB T1L1K2"),
     add_field("Conditions", weather \o " °C"),
     Blank,
     Heading("Subcontractors Present:") >>
  \o Bullets(subcontractors)
  \o << Heading("Areas of Work/Progress:") >>
  \o Bullets(areas)
  \o << PageBreak >>

\* The second image's test written with the page break's bound.
HasSecondStrict(i, n) == i + 2 < n

\* Second image (optional): if i + 1 < len(uploaded_files)
HasSecond(i, n) == i + 1 < n

\* "if i + 2 < len(uploaded_files)" mistaken for "if i + 2 <= ...".
MoreRemainOffByOne(i, n) == i + 2 <= n

\* Page break only if more remain: if i + 2 < len(uploaded_files)
MoreRemain(i, n) == i + 2 < n

\* One image: seek(0), read, resize_image, save to a fresh temporary file,
\* add the picture.  acc is [doc, disk, exc].
PlaceImage(acc, file) ==
  LET img == resize_image(file.payload)
      temp == NamedTemporaryFile(acc.disk)
  IN IF ~img.ok
     THEN [acc EXCEPT !.exc = img.exc]
     ELSE [doc  |-> Append(acc.doc, Picture(file, temp)),
           disk |-> acc.disk \cup {temp},
           exc  |-> NoExc]

\* for i in range(0, len(uploaded_files), 2): ...   (i counts from 0)
RECURSIVE ImageLoop(_, _, _)
ImageLoop(uploaded_files, i, acc) ==
  LET n == Len(uploaded_files) IN
  IF i >= n THEN acc
  ELSE LET a1 == PlaceImage(acc, uploaded_files[i + 1])
       IN IF a1.exc # NoExc THEN a1
          ELSE LET a2 == IF HasSecond(i, n)
                         THEN PlaceImage(a1, uploaded_files[i + 2])
                         ELSE a1
               IN IF a2.exc # NoExc THEN a2
                  ELSE ImageLoop(uploaded_files, i + 2,
                                 IF MoreRemain(i, n)
                                 THEN [a2 EXCEPT !.doc = Append(a2.doc, PageBreak)]
                                 ELSE a2)

\* generate_report: [doc, disk, exc]; doc is what doc.save() serialises when
\* exc = NoExc, disk the temporary files it created that exist when it is
\* left (nothing in the function unlinks one).
generate_report(uploaded_files, weather, subcontractors, areas) ==
  ImageLoop(uploaded_files, 0,
            [doc  |-> FrontMatter(weather, subcontractors, areas),
             disk |-> {},
             exc  |-> NoExc])

(***************************************************************************)
(* State.                                                                  *)
(***************************************************************************)
VARIABLES
  widget,        \* value of st.file_uploader: the files the widget holds
  staged,        \* st.session_state.uploaded_files
  tempFiles,     \* temporary files the last run created that are still on disk
  shown,         \* messages the last script run displayed
  report_bytes,  \* document handed to st.download_button by the last run
  raised,        \* exception that ended the last run, NoExc if none
  called,        \* whether the last run entered generate_report
  inputs,        \* text widgets' values a generating run read
  event,         \* the user interaction that triggered the last run
  sinceClear     \* history: Clear was clicked and no file was uploaded since

vars == << widget, staged, tempFiles, shown, report_bytes, raised, called,
           inputs, event, sinceClear >>

NoDoc == <<>>
NoInputs == [weather |-> "", subcontractors |-> <<>>, areas |-> <<>>]

Init ==
  /\ widget = <<>>
  /\ staged = <<>>
  /\ tempFiles = {}
  /\ shown = {}
  /\ report_bytes = NoDoc
  /\ raised = NoExc
  /\ called = FALSE
  /\ inputs = NoInputs
  /\ event = "start"
  /\ sinceClear = FALSE

\* if uploaded: st.session_state.uploaded_files = uploaded
Restage(uploaded, session) == IF uploaded # <<>> THEN uploaded ELSE session

\* A run in which neither button reports a click: nothing is displayed.
NothingShown ==
  /\ shown' = {}
  /\ report_bytes' = NoDoc
  /\ raised' = NoExc
  /\ called' = FALSE
  /\ inputs' = NoInputs
  /\ tempFiles' = {}

Remove(seq, k) == SubSeq(seq, 1, k - 1) \o SubSeq(seq, k + 1, Len(seq))

\* The user adds a file to the upload widget; the script reruns.
UploadFile(f) ==
  /\ Len(widget) < MaxFiles
  /\ \A k \in 1..Len(widget) : widget[k].id # f.id
  /\ widget' = Append(widget, f)
  /\ staged' = Restage(widget', staged)
  /\ NothingShown
  /\ event' = "upload"
  /\ sinceClear' = FALSE

\* The user removes a file from the upload widget; the script reruns.
RemoveFile(k) ==
  /\ k \in 1..Len(widget)
  /\ widget' = Remove(widget, k)
  /\ staged' = Restage(widget', staged)
  /\ NothingShown
  /\ event' = "remove"
  /\ UNCHANGED sinceClear

\* The user edits a text, number or slider widget; the script reruns.
EditInput ==
  /\ staged' = Restage(widget, staged)
  /\ NothingShown
  /\ event' = "edit"
  /\ UNCHANGED << widget, sinceClear >>

\* The user clicks "Clear Uploaded Images".  The run restages the widget's
\* value, empties the staged list and calls st.experimental_rerun(); the
\* rerun starts from the top with the upload widget still holding its
\* files and both buttons unclicked.
ClickClear ==
  /\ LET cleared == <<>>
     IN staged' = Restage(widget, cleared)
  /\ NothingShown
  /\ event' = "clear"
  /\ sinceClear' = TRUE
  /\ UNCHANGED widget

\* The else branch of the handler: sort the staged list in place, build the
\* report, show the success message and offer the download.  An exception
\* raised by generate_report ends the run before either is reached.
GenerateStaged(weather, subcontractors_text, areas_text) ==
  \E uploaded_files \in { SortByKey(Restage(widget, staged)) } :
  \E result \in { generate_report(uploaded_files, weather,
                                  Split(subcontractors_text), Split(areas_text)) } :
     /\ staged' = uploaded_files
     /\ called' = TRUE
     /\ inputs' = [weather |-> weather,
                   subcontractors |-> subcontractors_text,
                   areas |-> areas_text]
     /\ tempFiles' = result.disk
     /\ raised' = result.exc
     /\ shown' = IF result.exc = NoExc THEN {"success"} ELSE {}
     /\ report_bytes' = IF result.exc = NoExc THEN result.doc ELSE NoDoc
     /\ event' = "generate"
     /\ UNCHANGED << widget, sinceClear >>

\* The handler without its "if not st.session_state.uploaded_files" test.
ClickGenerateUnguarded(weather, subcontractors_text, areas_text) ==
  GenerateStaged(weather, subcontractors_text, areas_text)

\* The user clicks "Generate Report" with the given text widget values.
ClickGenerate(weather, subcontractors_text, areas_text) ==
  IF Restage(widget, staged) = <<>>
  THEN /\ staged' = Restage(widget, staged)
       /\ shown' = {"warning"}
       /\ report_bytes' = NoDoc
       /\ raised' = NoExc
       /\ called' = FALSE
       /\ inputs' = NoInputs
       /\ tempFiles' = {}
       /\ event' = "generate"
       /\ UNCHANGED << widget, sinceClear >>
  ELSE GenerateStaged(weather, subcontractors_text, areas_text)

Next ==
  \/ \E f \in FilePool : UploadFile(f)
  \/ \E k \in 1..MaxFiles : RemoveFile(k)
  \/ EditInput
  \/ ClickClear
  \/ \E w \in Weathers, st \in SampleTexts, at \in SampleTexts :
        ClickGenerate(w, st, at)

Spec == Init /\ [][Next]_vars

(***************************************************************************)
(* The text areas alone: one decodable image is staged and every text of   *)
(* at most MaxText characters is typed into each text area.                *)
(***************************************************************************)
InitText ==
  /\ \E f \in { g \in FilePool : g.id <= 2 } :
        widget = <<f>> /\ staged = <<f>>
  /\ tempFiles = {}
  /\ shown = {}
  /\ report_bytes = NoDoc
  /\ raised = NoExc
  /\ called = FALSE
  /\ inputs = NoInputs
  /\ event = "upload"
  /\ sinceClear = FALSE

NextText ==
  \/ EditInput
  \/ /\ event # "generate"
     /\ \E st \in Texts, at \in Texts : ClickGenerate("12", st, at)

SpecText == InitText /\ [][NextText]_vars

(***************************************************************************)
(* Vocabulary of the properties.                                           *)
(***************************************************************************)
Success == "success" \in shown

FileById(id) == CHOOSE f \in FilePool : f.id = id

\* Where the file with this id stands in a list that holds it.
Position(files, id) == CHOOSE k \in 1..Len(files) : files[k].id = id

HasDigit(name) == \E k \in 1..Len(name) : IsDigit(name[k])

\* The integer written by the first run of digits of each pool file's name,
\* read off the names by hand: img3, img1, img10, img2, p01x9.  cover and
\* notes have no digit.
FirstDigitRunValue == (1 :> 3) @@ (2 :> 1) @@ (3 :> 10) @@ (5 :> 2) @@ (7 :> 1)

SameKey(a, b) ==
  \/ a \notin DOMAIN FirstDigitRunValue /\ b \notin DOMAIN FirstDigitRunValue
  \/ /\ a \in DOMAIN FirstDigitRunValue
     /\ b \in DOMAIN FirstDigitRunValue
     /\ FirstDigitRunValue[a] = FirstDigitRunValue[b]

Count(doc, kind) == Cardinality({ k \in 1..Len(doc) : doc[k].kind = kind })

\* The elements after the unconditional page break that ends the front matter.
ImageSection(doc) ==
  LET first == CHOOSE k \in 1..Len(doc) :
                  /\ doc[k].kind = "page_break"
                  /\ \A j \in 1..(k - 1) : doc[j].kind # "page_break"
  IN SubSeq(doc, first + 1, Len(doc))

IsPicture(e) == e.kind = "picture"

\* The plates of a document, in document order.
Plates(doc) == SelectSeq(doc, IsPicture)

\* The page of the image section on which element k stands.
PageOf(section, k) ==
  1 + Cardinality({ j \in 1..(k - 1) : section[j].kind = "page_break" })

PlatesOnPage(section, page) ==
  Cardinality({ k \in 1..Len(section) :
                  section[k].kind = "picture" /\ PageOf(section, k) = page })

NumPages(section) == 1 + Count(section, "page_break")

\* The bullets that directly follow the heading with the given text.
BulletsAfter(doc, heading) ==
  LET h == CHOOSE k \in 1..Len(doc) :
              doc[k].kind = "heading" /\ doc[k].text = heading
      n == CHOOSE m \in 0..(Len(doc) - h) :
              /\ \A j \in (h + 1)..(h + m) : doc[j].kind = "bullet"
              /\ (h + m = Len(doc) \/ doc[h + m + 1].kind # "bullet")
  IN SubSeq(doc, h + 1, h + n)

RECURSIVE Join(_)
Join(entries) ==
  IF Len(entries) = 1 THEN entries[1]
  ELSE entries[1] \o <<NL>> \o Join(Tail(entries))

NewlineCount(text) == Cardinality({ k \in 1..Len(text) : text[k] = NL })

\* bullets are the lines "    - <entry>" of the entries of text, in order.
BulletsMatch(bullets, text) ==
  /\ Len(bullets) = NewlineCount(text) + 1
  /\ \A k \in 1..Len(bullets) :
       SubSeq(bullets[k].text, 1, Len(BulletPrefix)) = BulletPrefix
  /\ Join([k \in 1..Len(bullets) |->
             SubSeq(bullets[k].text, Len(BulletPrefix) + 1, Len(bullets[k].text))])
       = text

(***************************************************************************)
(* Properties.                                                             *)
(***************************************************************************)

\* C1: a report generated from N >= 1 staged images has exactly
\* ceil(N/2) - 1 page breaks after the unconditional page break that
\* precedes the first image.
C1_PageBreakCount ==
  Success =>
    Count(ImageSection(report_bytes), "page_break")
      = ((Len(staged) + 1) \div 2) - 1

C1_Witness ==
  /\ Success
  /\ Len(staged) = 5
  /\ Count(ImageSection(report_bytes), "page_break") = 2

\* C2: once Clear has been clicked the staged list is empty, and it stays
\* empty through every later run until a file is uploaded.
C2_ClearedStaysEmpty == sinceClear => staged = <<>>

\* C3: when a staged payload cannot be decoded, the generate run ends in an
\* error that names the first offending file, and offers neither a document
\* nor a success message.
C3_DecodeErrorNamesFile ==
  (event = "generate" /\ \E k \in 1..Len(staged) : staged[k].payload # "jpeg")
  => LET bad == CHOOSE k \in 1..Len(staged) :
                   /\ staged[k].payload # "jpeg"
                   /\ \A j \in 1..(k - 1) : staged[j].payload = "jpeg"
     IN /\ raised # NoExc
        /\ staged[bad].name \in raised.mentions
        /\ report_bytes = NoDoc
        /\ ~Success

\* C4: Generate clicked with nothing staged shows the warning, never enters
\* generate_report, offers no document and raises nothing.
C4_EmptyStagedWarns ==
  (event = "generate" /\ staged = <<>>)
  => /\ "warning" \in shown
     /\ ~Success
     /\ ~called
     /\ report_bytes = NoDoc
     /\ raised = NoExc

C4_Witness == event = "generate" /\ staged = <<>> /\ shown = {"warning"}

\* C5: the plates of a generated report are the staged images, each exactly
\* once, in ascending order of the integer value of the first digit run of
\* their names, and in the very order the sort left the staged list in.
C5_PlatesInNumericOrder ==
  Success =>
    LET plates == Plates(report_bytes) IN
    /\ Len(plates) = Len(staged)
    /\ \A k \in 1..Len(plates) : plates[k].image = staged[k].id
    /\ widget # <<>> =>
         /\ Len(plates) = Len(widget)
         /\ \A k \in 1..Len(widget) :
              Cardinality({ m \in 1..Len(plates) : plates[m].image = widget[k].id }) = 1
    /\ \A i, j \in 1..Len(plates) :
         ( /\ i < j
           /\ plates[i].image \in DOMAIN FirstDigitRunValue
           /\ plates[j].image \in DOMAIN FirstDigitRunValue )
         => FirstDigitRunValue[plates[i].image] <= FirstDigitRunValue[plates[j].image]

\* uploaded img3, img1, img10, cover, img2: plates img1, img2, img3, img10, cover
C5_Witness ==
  /\ Success
  /\ [k \in 1..Len(widget) |-> widget[k].id] = <<1, 2, 3, 4, 5>>
  /\ [k \in 1..Len(Plates(report_bytes)) |-> Plates(report_bytes)[k].image]
       = <<2, 5, 1, 3, 4>>

\* C6: the sort is stable: two staged files with equal sort keys (the same
\* digit-run value, or no digit at all) stand after the sort in the order
\* in which they were uploaded.
C6_SortStable ==
  (event = "generate" /\ widget # <<>>) =>
    \A i, j \in 1..Len(staged) :
      (i < j /\ SameKey(staged[i].id, staged[j].id))
      => Position(widget, staged[i].id) < Position(widget, staged[j].id)

\* uploaded notes, p01x9, cover, img1: sorted p01x9, img1, notes, cover
C6_Witness ==
  /\ event = "generate"
  /\ [k \in 1..Len(widget) |-> widget[k].id] = <<6, 7, 4, 2>>
  /\ [k \in 1..Len(staged) |-> staged[k].id] = <<7, 2, 6, 4>>

\* C7: after the sort every file whose name has no digit stands behind every
\* file whose name has one, whatever the upload order, and a name without
\* digits raises nothing: decodable files always yield a report.
C7_NoDigitLast ==
  event = "generate" =>
    /\ \A i, j \in 1..Len(staged) :
         (HasDigit(staged[i].name) /\ ~HasDigit(staged[j].name)) => i < j
    /\ Success =>
         \A i, j \in 1..Len(Plates(report_bytes)) :
           ( /\ HasDigit(FileById(Plates(report_bytes)[i].image).name)
             /\ ~HasDigit(FileById(Plates(report_bytes)[j].image).name) ) => i < j
    /\ ( /\ \E k \in 1..Len(staged) : ~HasDigit(staged[k].name)
         /\ \A k \in 1..Len(staged) : staged[k].payload = "jpeg" )
       => (raised = NoExc /\ Success)

\* uploaded cover, img10, img3: plates img3, img10, cover
C7_Witness ==
  /\ Success
  /\ [k \in 1..Len(widget) |-> widget[k].id] = <<4, 3, 1>>
  /\ [k \in 1..Len(Plates(report_bytes)) |-> Plates(report_bytes)[k].image]
       = <<1, 3, 4>>

\* C8: when generate_report has returned the document, none of the
\* temporary files it created for the plates still exists.
C8_TempFilesDeleted ==
  Success =>
    \A k \in 1..Len(report_bytes) :
      report_bytes[k].kind = "picture" => report_bytes[k].temp \notin tempFiles

\* C9: the report holds exactly one bullet per newline-separated entry of
\* the subcontractor text and of the work-area text, in input order, blank
\* entries included: k newlines give k + 1 bullets.
C9_BulletPerEntry ==
  Success =>
    LET subs  == BulletsAfter(report_bytes, "Subcontractors Present:")
        areas == BulletsAfter(report_bytes, "Areas of Work/Progress:")
    IN /\ BulletsMatch(subs, inputs.subcontractors)
       /\ BulletsMatch(areas, inputs.areas)
       /\ Count(report_bytes, "bullet") = Len(subs) + Len(areas)

\* "A\n\nA" gives three bullets, the middle one empty
C9_Witness ==
  /\ Success
  /\ inputs.subcontractors = <<"A", NL, NL, "A">>
  /\ LET subs == BulletsAfter(report_bytes, "Subcontractors Present:")
     IN /\ Len(subs) = 3
        /\ subs[1].text = BulletPrefix \o <<"A">>
        /\ subs[2].text = BulletPrefix
        /\ subs[3].text = BulletPrefix \o <<"A">>

\* C10: the image section holds the staged images in sorted order, two
\* plates on every page before the last, one plate on the last page when N
\* is odd and two when N is even, page breaks only between pages, and
\* nothing after the final plate.
C10_TwoPlatesPerPage ==
  Success =>
    LET section == ImageSection(report_bytes)
        pages   == NumPages(section)
    IN /\ \A k \in 1..Len(section) : section[k].kind \in {"picture", "page_break"}
       /\ Len(Plates(section)) = Len(staged)
       /\ \A k \in 1..Len(staged) : Plates(section)[k].image = staged[k].id
       /\ \A p \in 1..(pages - 1) : PlatesOnPage(section, p) = 2
       /\ PlatesOnPage(section, pages) = IF Len(staged) % 2 = 1 THEN 1 ELSE 2
       /\ section[Len(section)].kind = "picture"

C10_Witness ==
  /\ Success
  /\ Len(staged) = 5
  /\ NumPages(ImageSection(report_bytes)) = 3
  /\ PlatesOnPage(ImageSection(report_bytes), 3) = 1

=============================================================================
